---- MODULE Spec2Model ----
(***************************************************************************)
(* Payment verification and ticket lifecycle of TheRebootAdventuresBackend *)
(* (PaymentService.verifyPayment, QRService, TicketController).            *)
(*                                                                         *)
(* The persistence layer is the shared state: the Invoice collection with  *)
(* its unique sparse index on transactionId, and the EventRegistration     *)
(* collection with its unique (user, event) index.  Every request is a     *)
(* call slot that advances from one database await to the next; the steps  *)
(* of different calls interleave freely.                                   *)
(***************************************************************************)
EXTENDS Integers, FiniteSets, Sequences, TLC

\* ---- bounds ------------------------------------------------------------
NumCalls == 2
MaxTime == 1
MaxIdLen == 4

\* ---- value sets --------------------------------------------------------
Users == {"A", "B"}
TxIds == {"T1", "T2"}
Events == {"E1", "E2"}
Methods == {"telebirr", "cbe", "boa"}
Calls == 1..NumCalls
InvIds == {1, 2, 3}
NoInv == 0
NoKey == <<"none", "none">>

VARIABLES invoices, regs, refs, now, calls, detect, qr, events, prov, cbe

vars == <<invoices, regs, refs, now, calls, detect, qr, events, prov, cbe>>

\* ---- the stores --------------------------------------------------------

\* Invoice documents as initializePayment creates them: status pending, no
\* transactionId, paidAt or receiptData.  legacy invoices carry only
\* metadata.eventName, the others also the event reference.  metadata.time is
\* the event time t, or absent (-1).
NewInvoice(u, e, amt, t, legacy) ==
  [user |-> u, event |-> IF legacy THEN "none" ELSE e, eventName |-> e,
   time |-> t, amount |-> amt, status |-> "pending", transactionId |-> "none",
   paidAt |-> -1, confirmedAmount |-> -1]

\* EventRegistration documents with the schema defaults.
NewRegistration ==
  [status |-> "registered", checkedIn |-> FALSE, checkedInAt |-> -1]

\* The registrations on record: every invoice has one, or user A has none
\* for event E1.
RegConfigs ==
  { {<<"A", "E1">>, <<"A", "E2">>, <<"B", "E1">>},
    {<<"A", "E2">>, <<"B", "E1">>} }

\* No transaction id is being routed, no QR code is being scanned.
NoDetect == [tid |-> << >>, method |-> "none"]
NoQr ==
  [pc |-> "none", invoiceId |-> << >>, transactionId |-> << >>,
   reference |-> << >>, presented |-> << >>,
   error |-> "none", decodedInvoiceId |-> << >>]

\* No receipt provider is at work.
NoProv ==
  [pc |-> "idle", provider |-> "none", attempt |-> 0, responses |-> << >>,
   delays |-> << >>, status |-> "none", amount |-> 0, error |-> << >>]

\* The calls of verifyCBE for one transaction id, and the two files in /tmp
\* whose names derive from that id.  No call runs and no file exists.
CbeCalls == {1, 2}

NoRun == [pc |-> "idle", attempt |-> 0, responses |-> << >>, wrote |-> FALSE,
          result |-> "none"]

NoCbe == [pdf |-> "none", txt |-> "none", run |-> [c \in CbeCalls |-> NoRun]]

\* The Event collection in insertion order, every event under its own name.
EventOrder == <<"E1", "E2">>
OwnNames == [e \in Events |-> e]

IdleCall ==
  [pc |-> "idle", kind |-> "none", tx |-> "none", user |-> "none",
   method |-> "none", invoked |-> {}, hint |-> "none", ramount |-> -1, rtx |-> "none", rdate |-> -1,
   existing |-> NoInv, pending |-> NoInv, ref |-> <<NoInv, "none">>,
   reg |-> NoKey, tstatus |-> "none",
   success |-> FALSE, message |-> "none", searched |-> -1,
   invoice |-> NoInv]

\* The pending invoices of the two users, in creation order; event E1 takes
\* place at time 0 when timed.
InitialInvoices(legacy, timed) ==
  [i \in InvIds |->
     CASE i = 1 -> NewInvoice("A", "E2", 300, -1, legacy)
       [] i = 2 -> NewInvoice("A", "E1", 500, IF timed THEN 0 ELSE -1, legacy)
       [] OTHER -> NewInvoice("B", "E1", 500, IF timed THEN 0 ELSE -1, legacy)]

\* The records after the invoices were created and before any payment.
InitStores ==
  /\ invoices = InitialInvoices(FALSE, TRUE)
  /\ regs = [k \in {<<"A", "E1">>, <<"A", "E2">>, <<"B", "E1">>} |->
               NewRegistration]
  /\ refs = {}
  /\ now = 0
  /\ calls = [p \in Calls |-> IdleCall]
  /\ events = OwnNames
  /\ prov = NoProv
  /\ cbe = NoCbe

Init ==
  /\ InitStores
  /\ detect = NoDetect
  /\ qr = NoQr

\* The lowest free call slot takes the next request, so that permutations of
\* the slots are not explored twice.
CanStart(p) ==
  /\ calls[p].pc = "idle"
  /\ \A q \in Calls : q < p => calls[q].pc # "idle"

\* A finished call keeps its arguments and the value it returned; its locals
\* are gone.
Return(c, ok, msg, inv) ==
  [IdleCall EXCEPT !.pc = "done", !.kind = c.kind, !.tx = c.tx,
                   !.user = c.user, !.ref = c.ref, !.tstatus = c.tstatus,
                   !.success = ok, !.message = msg, !.invoice = inv]

\* The value is handed to the caller and the request is over; its slot takes
\* the next request.
Respond(p) ==
  /\ calls[p].pc = "done"
  /\ calls' = [calls EXCEPT ![p] = IdleCall]
  /\ UNCHANGED <<cbe, events, prov, detect, qr, invoices, regs, refs, now>>

\* ---- PaymentService.detectPaymentMethod ------------------------------------

\* The characters that transaction ids are written with here.
Alphabet == {"F", "f", "T", "C", "D", "1", " "}

\* String.prototype.toUpperCase, character by character.
UpperChar(ch) == IF ch = "f" THEN "F" ELSE ch

ToUpperCase(str) == [n \in 1..Len(str) |-> UpperChar(str[n])]

\* String.prototype.trim: the white space at both ends is dropped.
RECURSIVE TrimStart(_)
TrimStart(str) ==
  IF str # << >> /\ Head(str) = " " THEN TrimStart(Tail(str)) ELSE str

RECURSIVE TrimEnd(_)
TrimEnd(str) ==
  IF str # << >> /\ str[Len(str)] = " "
  THEN TrimEnd(SubSeq(str, 1, Len(str) - 1)) ELSE str

Trim(str) == TrimEnd(TrimStart(str))

\* String.prototype.startsWith
StartsWith(str, prefix) ==
  /\ Len(str) >= Len(prefix)
  /\ SubSeq(str, 1, Len(prefix)) = prefix

\* The detection without the upper-casing.
detectPaymentMethodCaseSensitive(transactionId) ==
  LET tid == Trim(transactionId)
  IN IF StartsWith(tid, <<"F", "T">>) THEN "cbe"
     ELSE IF StartsWith(tid, <<"C", "F", "T">>)
             \/ StartsWith(tid, <<"D", "F", "T">>) THEN "boa"
     ELSE "telebirr"

\* Lines 21-29.
detectPaymentMethod(transactionId) ==
  LET tid == ToUpperCase(Trim(transactionId))
  IN IF StartsWith(tid, <<"F", "T">>) THEN "cbe"
     ELSE IF StartsWith(tid, <<"C", "F", "T">>)
             \/ StartsWith(tid, <<"D", "F", "T">>) THEN "boa"
     ELSE "telebirr"

\* A caller routes the transaction id that it holds.
DetectPaymentMethod ==
  /\ detect' = [detect EXCEPT !.method = detectPaymentMethod(detect.tid)]
  /\ UNCHANGED <<cbe, events, prov, invoices, regs, refs, now, calls, qr>>

\* ---- PaymentService.verifyPayment ---------------------------------------

\* method?.toLowerCase() on the method names in use.
ToLowerCase(m) ==
  CASE m = "CBE" -> "cbe"
    [] m = "BOA" -> "boa"
    [] OTHER -> m

\* The dispatch trying every provider in turn.
DispatchEveryProvider(method) ==
  {"verifyCBE", "verifyBOA", "verifyTransaction"}

\* Lines 103-119: the providers that a call with this method argument
\* invokes.  An absent method takes the parameter's default 'telebirr'; the
\* else branch takes every name that is neither 'cbe' nor 'boa'.
Dispatch(method) ==
  LET m == IF method = "none" THEN "telebirr" ELSE method
  IN IF ToLowerCase(m) = "cbe" THEN {"verifyCBE"}
     ELSE IF ToLowerCase(m) = "boa" THEN {"verifyBOA"}
     ELSE {"verifyTransaction"}

\* Lines 103-119: the call starts and awaits the provider that its method
\* selects.
VpDispatch(p, tx, u, method, hint) ==
  /\ CanStart(p)
  /\ calls' = [calls EXCEPT ![p] =
       [@ EXCEPT !.kind = "vp", !.tx = tx, !.user = u, !.method = method,
                 !.hint = hint, !.invoked = Dispatch(method),
                 !.pc = "vp_provider"]]
  /\ UNCHANGED <<cbe, events, prov, detect, qr, invoices, regs, refs, now>>

\* The transaction id of the receipt: verifyBOA takes the slip's
\* 'Transaction Reference' when present, verifyCBE and verifyTransaction echo
\* the submitted id.
ReceiptTxIds(providers, tx) ==
  IF "verifyBOA" \in providers THEN TxIds ELSE {tx}

\* Invoice.findOne({transactionId, status: 'paid'})
FindPaidByTx(tx) ==
  IF \E i \in InvIds : invoices[i].transactionId = tx /\ invoices[i].status = "paid"
  THEN CHOOSE i \in InvIds :
         invoices[i].transactionId = tx /\ invoices[i].status = "paid"
  ELSE NoInv

\* The verification writing the transaction id to the newest pending invoice
\* of the user before the provider has answered.
VpVerifyWritingFirst(p, amounts, dates) ==
  /\ calls[p].pc = "vp_provider"
  /\ LET c == [calls[p] EXCEPT !.method = "none", !.invoked = {}]
         tx == c.tx
         u == c.user
         e == FindPaidByTx(tx)
         mine == {i \in InvIds : invoices[i].user = u
                                 /\ invoices[i].status = "pending"}
     IN \/ /\ calls' = [calls EXCEPT ![p] =
                          Return(c, FALSE, "provider_error", NoInv)]
           /\ invoices' = [i \in InvIds |->
                             IF i \in mine /\ \A j \in mine : j <= i
                             THEN [invoices[i] EXCEPT !.transactionId = tx]
                             ELSE invoices[i]]
        \/ /\ \E amt \in amounts, rtx \in ReceiptTxIds(calls[p].invoked, tx),
                 d \in dates :
                calls' = [calls EXCEPT ![p] =
                   [c EXCEPT !.ramount = amt, !.rtx = rtx, !.rdate = d,
                             !.existing = e,
                             !.pc = IF e # NoInv /\ invoices[e].user = u
                                    THEN "vp_resend" ELSE "vp_find"]]
           /\ UNCHANGED invoices
  /\ UNCHANGED <<cbe, events, prov, detect, qr, regs, refs, now>>

\* Lines 107-134: the provider throws (caught at 303) or returns a receipt
\* whose status is 'valid', and then the idempotency lookup.  The method is
\* not read again.
VpVerify(p, amounts, dates) ==
  /\ calls[p].pc = "vp_provider"
  /\ LET c == [calls[p] EXCEPT !.method = "none", !.invoked = {}]
         tx == c.tx
         u == c.user
         e == FindPaidByTx(tx)
     IN \/ calls' = [calls EXCEPT ![p] =
                       Return(c, FALSE, "provider_error", NoInv)]
        \/ \E amt \in amounts, rtx \in ReceiptTxIds(calls[p].invoked, tx),
              d \in dates :
             calls' = [calls EXCEPT ![p] =
                [c EXCEPT !.ramount = amt, !.rtx = rtx, !.rdate = d,
                          !.existing = e,
                          !.pc = IF e # NoInv /\ invoices[e].user = u
                                 THEN "vp_resend" ELSE "vp_find"]]
  /\ UNCHANGED <<cbe, events, prov, detect, qr, invoices, regs, refs, now>>

\* generateSecureReference: the signed reference binds invoiceId and
\* transactionId.  The issuance time and the nonce tell two references of one
\* invoice apart and decide nothing else; they are left out.
Reference(inv, tx) == <<inv, tx>>

\* What becomes of the ticket of a payment: it is sent to the user's chat, the
\* user has no chat, or the QR code or the notification fails.
Deliveries == {"sent", "no_chat", "failed"}

\* Lines 134-193: the duplicate submission of the same user.  The ticket of
\* the existing invoice is sent again; a failure is reported as an error that
\* still carries the invoice.
VpResend(p, deliveries) ==
  /\ calls[p].pc = "vp_resend"
  /\ LET c == calls[p]
     IN \E d \in deliveries :
          /\ refs' = IF d = "sent"
                     THEN refs \cup {Reference(c.existing, c.tx)}
                     ELSE refs
          /\ calls' = [calls EXCEPT ![p] =
               IF d = "failed"
               THEN Return(c, FALSE, "already_paid_resend_failed", c.existing)
               ELSE Return(c, TRUE, "qr_resent", c.existing)]
  /\ UNCHANGED <<cbe, events, prov, detect, qr, invoices, regs, now>>

Max(S) == CHOOSE x \in S : \A y \in S : y <= x

\* The query without its condition on the amount.
FindPendingOfAnyAmount(u, hint, a) ==
  LET S == {i \in InvIds : /\ invoices[i].user = u
                           /\ invoices[i].status = "pending"
                           /\ (hint # "none" => invoices[i].eventName = hint)}
  IN IF S = {} THEN NoInv ELSE Max(S)

\* Invoice.findOne({user, ['metadata.eventName',] amount <= a, status:
\* 'pending'}).sort({createdAt: -1}); invoice ids are in creation order.
FindPending(u, hint, a) ==
  LET S == {i \in InvIds : /\ invoices[i].user = u
                           /\ invoices[i].status = "pending"
                           /\ invoices[i].amount <= a
                           /\ (hint # "none" => invoices[i].eventName = hint)}
  IN IF S = {} THEN NoInv ELSE Max(S)

\* The selection that does not look at the hint.
SelectPendingWithoutHint(u, hint, a) == FindPending(u, "none", a)

\* Lines 197-216: by event name first when a hint is given, then without.
SelectPending(u, hint, a) ==
  LET first == IF hint # "none" THEN FindPending(u, hint, a) ELSE NoInv
  IN IF first # NoInv THEN first ELSE FindPending(u, "none", a)

\* The candidate selection whose failure does not tell the amount.
VpFindWithoutAmount(p) ==
  /\ calls[p].pc = "vp_find"
  /\ LET c == calls[p]
         i == SelectPending(c.user, c.hint, c.ramount)
     IN calls' = [calls EXCEPT ![p] =
          IF i = NoInv THEN Return(c, FALSE, "no_pending_invoice", NoInv)
          ELSE [c EXCEPT !.pending = i, !.pc = "vp_save"]]
  /\ UNCHANGED <<cbe, events, prov, detect, qr, invoices, regs, refs, now>>

\* Lines 195-220: candidate selection.  The message of the failure names the
\* amount of the receipt, twice.
VpFind(p) ==
  /\ calls[p].pc = "vp_find"
  /\ LET c == calls[p]
         i == SelectPending(c.user, c.hint, c.ramount)
     IN calls' = [calls EXCEPT ![p] =
          IF i = NoInv
          THEN [Return(c, FALSE, "no_pending_invoice", NoInv)
                  EXCEPT !.searched = c.ramount]
          ELSE [c EXCEPT !.pending = i, !.pc = "vp_save"]]
  /\ UNCHANGED <<cbe, events, prov, detect, qr, invoices, regs, refs, now>>

\* The save without the unique index on transactionId.
DuplicateKeyIndexDropped(i, tx) == FALSE

\* The unique sparse index on transactionId: another document already holds tx.
DuplicateKey(i, tx) ==
  \E j \in InvIds : j # i /\ invoices[j].transactionId = tx

\* Lines 222-235: pendingInvoice.save().  The document is written by _id with
\* the four modified paths; a date that does not parse fails the cast of
\* paidAt, a transactionId held by another document fails the unique index,
\* and either error is caught at 303.
VpSave(p) ==
  /\ calls[p].pc = "vp_save"
  /\ LET c == calls[p]
         i == c.pending
     IN IF c.rdate < 0
        THEN /\ calls' = [calls EXCEPT ![p] =
                            Return(c, FALSE, "cast_error", NoInv)]
             /\ UNCHANGED invoices
        ELSE IF DuplicateKey(i, c.tx)
        THEN /\ calls' = [calls EXCEPT ![p] =
                            Return(c, FALSE, "E11000_duplicate_key", NoInv)]
             /\ UNCHANGED invoices
        ELSE /\ invoices' = [invoices EXCEPT ![i] =
                   [@ EXCEPT !.status = "paid", !.transactionId = c.tx,
                             !.paidAt = c.rdate,
                             !.confirmedAmount = c.ramount]]
             /\ calls' = [calls EXCEPT ![p].pc = "vp_finish"]
  /\ UNCHANGED <<cbe, events, prov, detect, qr, regs, refs, now>>

\* Event.findOne({name}): the first event of that name in insertion order.
EventByName(n) ==
  IF \E k \in 1..Len(EventOrder) : events[EventOrder[k]] = n
  THEN EventOrder[CHOOSE k \in 1..Len(EventOrder) :
                    /\ events[EventOrder[k]] = n
                    /\ \A l \in 1..(k - 1) : events[EventOrder[l]] # n]
  ELSE "none"

\* The confirmation writing the whole registration document anew.
ConfirmRegistrationWholeDocument(i) ==
  LET k == <<invoices[i].user, EventByName(invoices[i].eventName)>>
  IN IF k \in DOMAIN regs
     THEN [regs EXCEPT ![k] = [NewRegistration EXCEPT !.status = "confirmed"]]
     ELSE regs

\* Lines 237-255: the registration of the invoice's user for the event named
\* by metadata.eventName becomes 'confirmed'; save() writes the modified path
\* status and nothing else.
ConfirmRegistration(i) ==
  LET k == <<invoices[i].user, EventByName(invoices[i].eventName)>>
  IN IF k \in DOMAIN regs THEN [regs EXCEPT ![k].status = "confirmed"]
     ELSE regs

\* What follows a commit: one of the deliveries of the ticket, or a query or
\* save of the registration step that throws.
FinishOutcomes == Deliveries \cup {"confirm_failed"}

\* The steps after the commit undoing the commit when the registration step
\* throws.
VpFinishRollingBack(p, outcomes) ==
  /\ calls[p].pc = "vp_finish"
  /\ LET c == calls[p]
     IN \E d \in outcomes :
          IF d = "confirm_failed"
          THEN /\ invoices' = [invoices EXCEPT ![c.pending] =
                     [@ EXCEPT !.status = "pending", !.transactionId = "none",
                               !.paidAt = -1, !.confirmedAmount = -1]]
               /\ UNCHANGED <<regs, refs>>
               /\ calls' = [calls EXCEPT ![p] =
                              Return(c, FALSE, "confirm_error", NoInv)]
          ELSE /\ regs' = ConfirmRegistration(c.pending)
               /\ refs' = IF d = "sent"
                          THEN refs \cup {Reference(c.pending, c.tx)}
                          ELSE refs
               /\ calls' = [calls EXCEPT ![p] =
                              Return(c, TRUE, "payment_verified", c.pending)]
               /\ UNCHANGED invoices
  /\ UNCHANGED <<cbe, events, prov, detect, qr, now>>

\* Lines 237-306: the registration is confirmed, then the ticket of the
\* in-memory invoice is generated and sent; a failure of the ticket is logged
\* and the payment still reported.  The registration step stands in no try
\* block of its own: when one of its queries or its save throws, the catch at
\* 303 returns the error, and the invoice stays as committed.
VpFinish(p, outcomes) ==
  /\ calls[p].pc = "vp_finish"
  /\ LET c == calls[p]
     IN \E d \in outcomes :
          IF d = "confirm_failed"
          THEN /\ UNCHANGED <<regs, refs>>
               /\ calls' = [calls EXCEPT ![p] =
                              Return(c, FALSE, "confirm_error", NoInv)]
          ELSE /\ regs' = ConfirmRegistration(c.pending)
               /\ refs' = IF d = "sent"
                          THEN refs \cup {Reference(c.pending, c.tx)}
                          ELSE refs
               /\ calls' = [calls EXCEPT ![p] =
                              Return(c, TRUE, "payment_verified", c.pending)]
  /\ UNCHANGED <<cbe, events, prov, detect, qr, invoices, now>>

\* ---- QRService: the signed reference ---------------------------------------

\* Strings are sequences of character codes, buffers sequences of bytes, and
\* a base64url text a sequence of digits 0..63.
Colon == 58
ReplacementCharacter == 65533

\* Buffer.from(string): UTF-8, one byte for a character below 128 and EF BF BD
\* for U+FFFD.
RECURSIVE Utf8Encode(_)
Utf8Encode(str) ==
  IF str = << >> THEN << >>
  ELSE (IF Head(str) < 128 THEN <<Head(str)>> ELSE <<239, 191, 189>>)
       \o Utf8Encode(Tail(str))

\* buffer.toString('utf-8') of a buffer in which no two bytes above 127
\* form a character: every such byte becomes U+FFFD.
Utf8Decode(bytes) ==
  [n \in 1..Len(bytes) |->
     IF bytes[n] < 128 THEN bytes[n] ELSE ReplacementCharacter]

\* Bit j, from 0, of a buffer; past its end the bits are 0.
BitOfBytes(bytes, j) ==
  IF j < 8 * Len(bytes)
  THEN (bytes[(j \div 8) + 1] \div (2 ^ (7 - (j % 8)))) % 2
  ELSE 0

\* buffer.toString('base64url'): six bits a digit, no padding characters.
Base64UrlEncode(bytes) ==
  [k \in 1..((8 * Len(bytes) + 5) \div 6) |->
     LET j == 6 * (k - 1)
     IN 32 * BitOfBytes(bytes, j) + 16 * BitOfBytes(bytes, j + 1)
        + 8 * BitOfBytes(bytes, j + 2) + 4 * BitOfBytes(bytes, j + 3)
        + 2 * BitOfBytes(bytes, j + 4) + BitOfBytes(bytes, j + 5)]

BitOfDigits(digits, j) == (digits[(j \div 6) + 1] \div (2 ^ (5 - (j % 6)))) % 2

\* Buffer.from(text, 'base64url'): the whole bytes of the bit string; the
\* bits left over in the last digit are dropped whatever they are.
Base64UrlDecode(digits) ==
  [m \in 1..((6 * Len(digits)) \div 8) |->
     LET j == 8 * (m - 1)
     IN 128 * BitOfDigits(digits, j) + 64 * BitOfDigits(digits, j + 1)
        + 32 * BitOfDigits(digits, j + 2) + 16 * BitOfDigits(digits, j + 3)
        + 8 * BitOfDigits(digits, j + 4) + 4 * BitOfDigits(digits, j + 5)
        + 2 * BitOfDigits(digits, j + 6) + BitOfDigits(digits, j + 7)]

HexDigit(v) == IF v < 10 THEN 48 + v ELSE 87 + v

RECURSIVE Hex(_)
Hex(bytes) ==
  IF bytes = << >> THEN << >>
  ELSE <<HexDigit(Head(bytes) \div 16), HexDigit(Head(bytes) % 16)>>
       \o Hex(Tail(bytes))

\* createHmac('sha256', SECRET_KEY).update(data).digest('hex'), as an ideal
\* MAC: a text of hex digits that no two data share.
Hmac(data) == Hex(Utf8Encode(data))

\* Array.prototype.join
RECURSIVE Join(_, _)
Join(parts, sep) ==
  IF Len(parts) = 0 THEN << >>
  ELSE IF Len(parts) = 1 THEN parts[1]
  ELSE parts[1] \o <<sep>> \o Join(Tail(parts), sep)

\* String.prototype.split
RECURSIVE Split(_, _)
Split(str, sep) ==
  IF \A n \in 1..Len(str) : str[n] # sep THEN <<str>>
  ELSE LET n == CHOOSE k \in 1..Len(str) :
                  str[k] = sep /\ \A l \in 1..(k - 1) : str[l] # sep
       IN <<SubSeq(str, 1, n - 1)>> \o Split(SubSeq(str, n + 1, Len(str)), sep)

\* Date.now() and randomBytes(16).toString('hex'), one character each: "9"
\* and "c".
Timestamp == <<57>>
Random == <<99>>

\* Lines 52-68.
generateSecureReference(invoiceId, transactionId) ==
  LET data == Join(<<invoiceId, transactionId, Timestamp, Random>>, Colon)
      fullData == Join(<<data, Hmac(data)>>, Colon)
  IN Base64UrlEncode(Utf8Encode(fullData))

\* Lines 76-94: the reference is decoded, split at the colons and its
\* signature compared with the one computed over the first four parts.
DecodeReference(reference) ==
  LET decoded == Utf8Decode(Base64UrlDecode(reference))
      parts == Split(decoded, Colon)
  IN IF Len(parts) # 5
     THEN [error |-> "Invalid reference format", invoiceId |-> << >>]
     ELSE IF parts[5] # Hmac(Join(SubSeq(parts, 1, 4), Colon))
     THEN [error |-> "Invalid signature - possible fraud", invoiceId |-> << >>]
     ELSE [error |-> "none", invoiceId |-> parts[1]]

\* generateTicketQR: the reference of a paid invoice is issued.
GenerateTicketQR ==
  /\ qr.pc = "paid"
  /\ qr' = [qr EXCEPT !.pc = "issued",
                      !.reference = generateSecureReference(qr.invoiceId,
                                                            qr.transactionId)]
  /\ UNCHANGED <<cbe, events, prov, invoices, regs, refs, now, calls, detect>>

\* The text that reaches verifyTicketReference, and what its first part
\* makes of it.
Present(text) ==
  /\ qr' = [qr EXCEPT !.pc = "verified", !.presented = text,
                      !.error = DecodeReference(text).error,
                      !.decodedInvoiceId = DecodeReference(text).invoiceId]
  /\ UNCHANGED <<cbe, events, prov, invoices, regs, refs, now, calls, detect>>

\* The QR code is scanned as issued.
Scan ==
  /\ qr.pc = "issued"
  /\ Present(qr.reference)

\* The reference arrives with its n-th character replaced by another
\* character of the base64url alphabet.
ScanTampered(n, d) ==
  /\ qr.pc = "issued"
  /\ n \in 1..Len(qr.reference)
  /\ d # qr.reference[n]
  /\ Present([qr.reference EXCEPT ![n] = d])

\* ---- QRService.verifyTicketReference -------------------------------------

\* The lookup by invoiceId alone.
FindInvoiceById(id, tx) ==
  IF id \in InvIds THEN id ELSE NoInv

\* Lines 96-106: Invoice.findOne({invoiceId, transactionId, status: 'paid'}).
FindPaidInvoice(id, tx) ==
  IF /\ id \in InvIds
     /\ invoices[id].transactionId = tx
     /\ invoices[id].status = "paid"
  THEN id ELSE NoInv

\* Lines 108-125: the registration of the invoice's user for invoice.event,
\* and when there is none, for the event that metadata.eventName names.
TicketRegistration(i) ==
  LET inv == invoices[i]
      byRef == <<inv.user, inv.event>>
      byName == <<inv.user, EventByName(inv.eventName)>>
  IN IF byRef \in DOMAIN regs THEN byRef
     ELSE IF inv.eventName # "none" /\ byName \in DOMAIN regs THEN byName
     ELSE NoKey

\* The status with the event time looked at before the check-in.
determineTicketStatusExpiryFirst(i, k) ==
  IF invoices[i].time >= 0 /\ now > invoices[i].time THEN "expired"
  ELSE IF k # NoKey /\ regs[k].checkedIn THEN "used"
  ELSE "valid"

\* Lines 152-169.
determineTicketStatus(i, k) ==
  IF k # NoKey /\ regs[k].checkedIn THEN "used"
  ELSE IF invoices[i].time >= 0 /\ now > invoices[i].time THEN "expired"
  ELSE "valid"

\* Lines 73-147, for a reference whose signature matches.
verifyTicketReference(r) ==
  LET i == FindPaidInvoice(r[1], r[2])
  IN IF i = NoInv
     THEN [error |-> "Invoice not found or not paid", status |-> "none"]
     ELSE [error |-> "none",
           status |-> determineTicketStatus(i, TicketRegistration(i))]

\* ---- TicketController ----------------------------------------------------

\* Lines 312-339: the error code of GET /ticket/:reference.
ErrorCode(msg) ==
  IF msg = "Invalid signature - possible fraud" THEN "INVALID_SIGNATURE"
  ELSE IF msg = "Invoice not found or not paid" THEN "TICKET_NOT_FOUND"
  ELSE "VERIFY_ERROR"

\* verifyTicket, GET /ticket/:reference.
VerifyTicket(p, r) ==
  /\ CanStart(p)
  /\ LET t == verifyTicketReference(r)
         c == [calls[p] EXCEPT !.kind = "vt", !.ref = r, !.tstatus = t.status]
     IN calls' = [calls EXCEPT ![p] =
          IF t.error # "none" THEN Return(c, FALSE, ErrorCode(t.error), NoInv)
          ELSE Return(c, TRUE, "ticket", r[1])]
  /\ UNCHANGED <<cbe, events, prov, detect, qr, invoices, regs, refs, now>>

\* Lines 384-393: invoice.event, or the event that metadata.eventName names.
TicketEvent(i) ==
  IF invoices[i].event # "none" THEN invoices[i].event
  ELSE EventByName(invoices[i].eventName)

\* The first step of markTicketUsed turning away only a used ticket.
MtuVerifyExpiredAdmitted(p, r) ==
  /\ CanStart(p)
  /\ LET t == verifyTicketReference(r)
         c == [calls[p] EXCEPT !.kind = "mtu", !.ref = r, !.tstatus = t.status]
     IN calls' = [calls EXCEPT ![p] =
          IF t.error # "none" THEN Return(c, FALSE, t.error, NoInv)
          ELSE IF t.status = "used"
          THEN Return(c, FALSE, "Ticket has already been used", r[1])
          ELSE IF TicketEvent(r[1]) = "none"
          THEN Return(c, FALSE, "Associated event not found", r[1])
          ELSE [c EXCEPT !.pc = "mtu_find"]]
  /\ UNCHANGED <<cbe, events, prov, detect, qr, invoices, regs, refs, now>>

\* markTicketUsed, lines 346-423: the reference is verified, and a ticket
\* that is used or expired is turned away.
MtuVerify(p, r) ==
  /\ CanStart(p)
  /\ LET t == verifyTicketReference(r)
         c == [calls[p] EXCEPT !.kind = "mtu", !.ref = r, !.tstatus = t.status]
     IN calls' = [calls EXCEPT ![p] =
          IF t.error # "none" THEN Return(c, FALSE, t.error, NoInv)
          ELSE IF t.status = "used"
          THEN Return(c, FALSE, "Ticket has already been used", r[1])
          ELSE IF t.status = "expired"
          THEN Return(c, FALSE, "This ticket has expired", r[1])
          ELSE IF TicketEvent(r[1]) = "none"
          THEN Return(c, FALSE, "Associated event not found", r[1])
          ELSE [c EXCEPT !.pc = "mtu_find"]]
  /\ UNCHANGED <<cbe, events, prov, detect, qr, invoices, regs, refs, now>>

\* Lines 425-449: the registration of the user for the event, and when there
\* is none, any registration of the user; a registration already checked in
\* is turned away.
MtuFind(p) ==
  /\ calls[p].pc = "mtu_find"
  /\ LET c == calls[p]
         u == invoices[c.ref[1]].user
         k == <<u, TicketEvent(c.ref[1])>>
         found == IF k \in DOMAIN regs THEN {k}
                  ELSE {j \in DOMAIN regs : j[1] = u}
     IN IF found = {}
        THEN calls' = [calls EXCEPT ![p] =
                         Return(c, FALSE, "Registration not found", c.ref[1])]
        ELSE \E j \in found :
               calls' = [calls EXCEPT ![p] =
                 IF regs[j].checkedIn
                 THEN Return(c, FALSE, "User already checked in", c.ref[1])
                 ELSE [c EXCEPT !.pc = "mtu_save", !.reg = j]]
  /\ UNCHANGED <<cbe, events, prov, detect, qr, invoices, regs, refs, now>>

\* A check-in that records the time and leaves the flag.
CheckInWithoutFlag(k) ==
  [regs EXCEPT ![k] = [@ EXCEPT !.checkedInAt = now]]

\* registration.save() with checkedIn and checkedInAt modified.
CheckIn(k) ==
  [regs EXCEPT ![k] = [@ EXCEPT !.checkedIn = TRUE, !.checkedInAt = now]]

\* Lines 451-469.
MtuSave(p) ==
  /\ calls[p].pc = "mtu_save"
  /\ regs' = CheckIn(calls[p].reg)
  /\ calls' = [calls EXCEPT ![p] =
                 Return([calls[p] EXCEPT !.reg = NoKey], TRUE,
                        "Checked in successfully!", calls[p].ref[1])]
  /\ UNCHANGED <<cbe, events, prov, detect, qr, invoices, refs, now>>

\* checkInManual, lines 522-539: EventRegistration.findById and the check.
CimFind(p, k) ==
  /\ CanStart(p)
  /\ LET c == [calls[p] EXCEPT !.kind = "cim"]
     IN calls' = [calls EXCEPT ![p] =
          IF k \notin DOMAIN regs
          THEN Return(c, FALSE, "Registration not found", NoInv)
          ELSE IF regs[k].checkedIn
          THEN Return(c, FALSE, "User already checked in", NoInv)
          ELSE [c EXCEPT !.pc = "cim_save", !.reg = k]]
  /\ UNCHANGED <<cbe, events, prov, detect, qr, invoices, regs, refs, now>>

\* Lines 541-556.
CimSave(p) ==
  /\ calls[p].pc = "cim_save"
  /\ regs' = CheckIn(calls[p].reg)
  /\ calls' = [calls EXCEPT ![p] =
                 Return(calls[p], TRUE, "Manual check-in successful", NoInv)]
  /\ UNCHANGED <<cbe, events, prov, detect, qr, invoices, refs, now>>

\* Time passes.
Tick ==
  /\ now < MaxTime
  /\ now' = now + 1
  /\ UNCHANGED <<cbe, events, prov, detect, qr, invoices, regs, refs, calls>>

\* ---- specifications ------------------------------------------------------

\* Concurrent reconciliations of both users with both transaction ids, by
\* the BOA provider, whose receipt carries the submitted id or another one.
\* No step of a reconciliation reads the tickets that were sent, so the users
\* here have no chat to send a ticket to.
Next ==
  \/ \E p \in Calls, tx \in TxIds, u \in Users :
       VpDispatch(p, tx, u, "boa", "none")
  \/ \E p \in Calls : VpVerify(p, {500}, {0})
  \/ \E p \in Calls : VpResend(p, {"no_chat", "failed"})
  \/ \E p \in Calls : VpFind(p)
  \/ \E p \in Calls : VpSave(p)
  \/ \E p \in Calls : VpFinish(p, {"no_chat", "failed"})
  \/ \E p \in Calls : Respond(p)

Spec == Init /\ [][Next]_vars

\* The ticket lifecycle: user A pays with transaction T1, the ticket is sent,
\* scanned at the gate and looked up, A's registration for E1 is checked in
\* by hand and time passes, over every registration configuration.
InitTicket ==
  /\ \E legacy, timed \in BOOLEAN : invoices = InitialInvoices(legacy, timed)
  /\ \E ks \in RegConfigs : regs = [k \in ks |-> NewRegistration]
  /\ refs = {}
  /\ now = 0
  /\ calls = [p \in Calls |-> IdleCall]
  /\ detect = NoDetect
  /\ qr = NoQr
  /\ events = OwnNames
  /\ prov = NoProv
  /\ cbe = NoCbe

NextTicket ==
  \/ \E p \in Calls : VpDispatch(p, "T1", "A", "telebirr", "none")
  \/ \E p \in Calls : VpVerify(p, {500}, {0})
  \/ \E p \in Calls : VpResend(p, Deliveries)
  \/ \E p \in Calls : VpFind(p)
  \/ \E p \in Calls : VpSave(p)
  \/ \E p \in Calls : VpFinish(p, Deliveries)
  \/ \E p \in Calls, r \in refs : VerifyTicket(p, r)
  \/ \E p \in Calls, r \in refs : MtuVerify(p, r)
  \/ \E p \in Calls : MtuFind(p)
  \/ \E p \in Calls : MtuSave(p)
  \/ \E p \in Calls : CimFind(p, <<"A", "E1">>)
  \/ \E p \in Calls : CimSave(p)
  \/ \E p \in Calls : Respond(p)
  \/ Tick

SpecTicket == InitTicket /\ [][NextTicket]_vars

\* Routing: detectPaymentMethod applied to every transaction id of up to
\* MaxIdLen characters.
Strings(n) == UNION {[1..k -> Alphabet] : k \in 0..n}

InitDetect ==
  /\ InitStores
  /\ detect \in {[tid |-> t, method |-> "none"] : t \in Strings(MaxIdLen)}
  /\ qr = NoQr

NextDetect == DetectPaymentMethod

SpecDetect == InitDetect /\ [][NextDetect]_vars

\* The transaction ids of the three rails, and what they are written with.
RailTxIds == {"FT1", "CFT1", "DFT1", "T1"}

Characters(tx) ==
  CASE tx = "FT1" -> <<"F", "T", "1">>
    [] tx = "CFT1" -> <<"C", "F", "T", "1">>
    [] tx = "DFT1" -> <<"D", "F", "T", "1">>
    [] tx = "T1" -> <<"T", "1">>
    [] tx = "T2" -> <<"T", "2">>
    [] tx = "fT1" -> <<"f", "T", "1">>
    [] tx = "FT1 " -> <<"F", "T", "1", " ">>

\* The method arguments of the callers: a rail, a rail in capitals, or none.
MethodArgs == Methods \cup {"CBE", "none"}

\* Dispatch: user A submits the transaction ids of every rail with every
\* method argument; the receipts confirm 100 or 200, less than any invoice,
\* so that every call ends at the candidate selection.
NextDispatch ==
  \/ \E p \in Calls, tx \in RailTxIds, m \in MethodArgs :
       VpDispatch(p, tx, "A", m, "none")
  \/ \E p \in Calls : VpVerify(p, {100, 200}, {0})
  \/ \E p \in Calls : VpFind(p)
  \/ \E p \in Calls : Respond(p)

SpecDispatch == Init /\ [][NextDispatch]_vars

\* Candidate selection: user A holds three pending invoices, two of them for
\* event E1, and submits one transaction with an event hint and a second one
\* without;
\* the receipts confirm 300 or 500.
SelectInvoices ==
  [i \in InvIds |->
     CASE i = 1 -> NewInvoice("A", "E1", 300, 0, FALSE)
       [] i = 2 -> NewInvoice("A", "E2", 300, 0, FALSE)
       [] OTHER -> NewInvoice("A", "E1", 500, 0, FALSE)]

Hints == {"E1", "E2"}

InitSelect ==
  /\ invoices = SelectInvoices
  /\ regs = [k \in {<<"A", "E1">>, <<"A", "E2">>} |-> NewRegistration]
  /\ refs = {}
  /\ now = 0
  /\ calls = [p \in Calls |-> IdleCall]
  /\ detect = NoDetect
  /\ qr = NoQr
  /\ events = OwnNames
  /\ prov = NoProv
  /\ cbe = NoCbe

NextSelect ==
  \/ \E p \in Calls, h \in Hints : VpDispatch(p, "T1", "A", "telebirr", h)
  \/ \E p \in Calls : VpDispatch(p, "T2", "A", "telebirr", "none")
  \/ \E p \in Calls : VpVerify(p, {300, 500}, {0})
  \/ \E p \in Calls : VpResend(p, {"no_chat"})
  \/ \E p \in Calls : VpFind(p)
  \/ \E p \in Calls : VpSave(p)
  \/ \E p \in Calls : VpFinish(p, {"no_chat"})
  \/ \E p \in Calls : Respond(p)

SpecSelect == InitSelect /\ [][NextSelect]_vars

\* The signed reference: invoice ids and transaction ids as the invoice
\* collection stores them, "I" and "J7", "T1" and the reply text "T:1"; the
\* reference is issued and scanned, as issued or with one character changed.
CodecInvoiceIds == {<<73>>, <<74, 55>>}
CodecTransactionIds == {<<84, 49>>, <<84, 58, 49>>}
Base64Digits == 0..63

InitReference ==
  /\ InitStores
  /\ detect = NoDetect
  /\ qr \in {[NoQr EXCEPT !.pc = "paid", !.invoiceId = i,
                           !.transactionId = t] :
               i \in CodecInvoiceIds, t \in CodecTransactionIds}

NextReference ==
  \/ GenerateTicketQR
  \/ Scan
  \/ \E n \in 1..Len(qr.reference), d \in Base64Digits : ScanTampered(n, d)

SpecReference == InitReference /\ [][NextReference]_vars

\* Lookup: user A pays with both transaction ids, every ticket is sent, and
\* the tickets are looked up while payments are in flight.
NextLookup ==
  \/ \E p \in Calls, tx \in TxIds : VpDispatch(p, tx, "A", "telebirr", "none")
  \/ \E p \in Calls : VpVerify(p, {500}, {0})
  \/ \E p \in Calls : VpResend(p, {"sent"})
  \/ \E p \in Calls : VpFind(p)
  \/ \E p \in Calls : VpSave(p)
  \/ \E p \in Calls : VpFinish(p, {"sent"})
  \/ \E p \in Calls, r \in refs : VerifyTicket(p, r)
  \/ \E p \in Calls : Respond(p)

SpecLookup == Init /\ [][NextLookup]_vars

\* One transaction id written three ways: as the bank prints it, with a
\* small letter, and with a space behind it.
CaseTxIds == {"FT1", "fT1", "FT1 "}

\* User A submits the three spellings to the CBE rail; the receipts confirm
\* 500.
NextCase ==
  \/ \E p \in Calls, tx \in CaseTxIds : VpDispatch(p, tx, "A", "cbe", "none")
  \/ \E p \in Calls : VpVerify(p, {500}, {0})
  \/ \E p \in Calls : VpResend(p, {"no_chat"})
  \/ \E p \in Calls : VpFind(p)
  \/ \E p \in Calls : VpSave(p)
  \/ \E p \in Calls : VpFinish(p, {"no_chat"})
  \/ \E p \in Calls : Respond(p)

SpecCase == Init /\ [][NextCase]_vars

\* One payment from end to end: user B, who has one pending invoice of 500
\* and a chat, submits a transaction id once with a receipt of 500; the ticket is sent,
\* looked up and presented at the gate, any number of times.
NextTrace ==
  \/ \E p \in Calls :
       /\ \A q \in Calls : calls[q].kind # "vp"
       /\ \A i \in InvIds : invoices[i].status = "pending"
       /\ \E tx \in TxIds : VpDispatch(p, tx, "B", "telebirr", "none")
  \/ \E p \in Calls : VpVerify(p, {500}, {0})
  \/ \E p \in Calls : VpFind(p)
  \/ \E p \in Calls : VpSave(p)
  \/ \E p \in Calls : VpFinish(p, {"sent"})
  \/ \E p \in Calls, r \in refs : VerifyTicket(p, r)
  \/ \E p \in Calls, r \in refs : MtuVerify(p, r)
  \/ \E p \in Calls : MtuFind(p)
  \/ \E p \in Calls : MtuSave(p)
  \/ \E p \in Calls : Respond(p)

SpecTrace == Init /\ [][NextTrace]_vars

\* ---- the receipt providers ----------------------------------------------

\* What one lookup of a receipt meets: no answer in time, a server error, a
\* document too short or malformed, the provider's "no such transaction", a
\* receipt without an amount, one whose amount is no number, one over zero,
\* and a receipt over 500.
Responses ==
  {"timeout", "5xx", "short_document", "not_found", "no_amount",
   "nan_amount", "zero_amount", "ok"}

\* parseFloat of a string without a number.
NaN == -1

\* The amount that the provider parses from a receipt.  verifyTransaction
\* and verifyBOA start from '0' when the receipt shows no amount.
ParsedAmount(resp) ==
  CASE resp = "ok" -> 500
    [] resp = "zero_amount" -> 0
    [] resp = "no_amount" -> 0
    [] OTHER -> NaN

\* verifyTransaction: the bound of its loop and the wait before a retry.
maxRetries == 1
TelebirrDelay == 2

\* verifyCBE: the bound of its loop and the wait before a retry.
maxAttempts == 3
CbeDelay == 3

\* The message of a failed pass of verifyCBE.  The receipt of an unknown
\* transaction is a document without the line of the amount.
CbeMessage(resp) ==
  CASE resp = "timeout" -> "Command failed"
    [] resp \in {"5xx", "short_document"} -> "CBE PDF download failed"
    [] OTHER -> "Could not parse amount from CBE receipt"

\* The error that a provider throws when its last lookup failed on resp.
\* verifyTransaction rethrows 'Invalid transaction ID' and has one message
\* for every other failure; verifyBOA throws its own message for a body
\* without a successful header and the message of the transport otherwise;
\* verifyCBE wraps the message of the last pass.
ErrorOf(provider, resp) ==
  CASE provider = "verifyTransaction" ->
         IF resp = "not_found" THEN <<"Invalid transaction ID">>
         ELSE <<"Failed to verify transaction">>
    [] provider = "verifyBOA" ->
         IF resp = "timeout" THEN <<"timeout of 15000ms exceeded">>
         ELSE IF resp = "5xx" THEN <<"Request failed with status code 500">>
         ELSE <<"Invalid BOA transaction ID or receipt not found">>
    [] OTHER -> <<"Failed to verify CBE transaction after 3 attempts",
                  CbeMessage(resp)>>

\* A call of a provider starts.
StartProvider(provider) ==
  /\ prov.pc = "idle"
  /\ prov' = [NoProv EXCEPT !.pc = "lookup", !.provider = provider]
  /\ UNCHANGED <<cbe, events, detect, qr, invoices, regs, refs, now, calls>>

\* A provider returns a receipt of status 'valid'.
Valid(resp, amt) ==
  [prov EXCEPT !.pc = "returned", !.status = "valid", !.amount = amt,
               !.attempt = @ + 1, !.responses = Append(@, resp)]

\* A provider throws.
Throw(resp) ==
  [prov EXCEPT !.pc = "failed", !.error = ErrorOf(prov.provider, resp),
               !.attempt = @ + 1, !.responses = Append(@, resp)]

\* A provider waits and looks up again.
Retry(resp, delay) ==
  [prov EXCEPT !.attempt = @ + 1, !.responses = Append(@, resp),
               !.delays = Append(@, delay)]

\* telebirr.service.ts 130-264, one pass of the loop.  The page of an unknown
\* transaction throws 'Invalid transaction ID', rethrown as it is; a timeout
\* or a 5xx is retried while attempts remain; every other failure, an amount
\* of zero or NaN (!amount) among them, ends in the one message 'Failed to
\* verify transaction. Please check the transaction number and try again.'
verifyTransaction(resp) ==
  /\ prov.pc = "lookup" /\ prov.provider = "verifyTransaction"
  /\ prov.attempt < maxRetries
  /\ prov' =
       IF resp \in {"timeout", "5xx"}
       THEN IF prov.attempt + 1 < maxRetries
            THEN Retry(resp, TelebirrDelay)
            ELSE Throw(resp)
       ELSE IF resp = "not_found"
       THEN Throw(resp)
       ELSE IF resp = "short_document"
               \/ ParsedAmount(resp) = NaN \/ ParsedAmount(resp) = 0
       THEN Throw(resp)
       ELSE Valid(resp, ParsedAmount(resp))
  /\ UNCHANGED <<cbe, events, detect, qr, invoices, regs, refs, now, calls>>

\* part_000 22-54: one request and no loop.  A body without a successful
\* header, malformed or of an unknown transaction, throws 'Invalid BOA
\* transaction ID or receipt not found'; a failed request throws the message
\* of the transport; every slip is returned as 'valid' with the amount that
\* parseFloat gave.
verifyBOA(resp) ==
  /\ prov.pc = "lookup" /\ prov.provider = "verifyBOA"
  /\ prov' =
       IF resp \in {"timeout", "5xx", "short_document", "not_found"}
       THEN Throw(resp)
       ELSE Valid(resp, ParsedAmount(resp))
  /\ UNCHANGED <<cbe, events, detect, qr, invoices, regs, refs, now, calls>>

\* part_000 59-124, one pass of the loop.  The catch counts every failure
\* alike: it waits 3 s and continues while attempts remain and throws
\* 'Failed to verify CBE transaction after 3 attempts: <message>' after the
\* last.  A matched amount is returned as 'valid' with what parseFloat gave.
verifyCBE(resp) ==
  /\ prov.pc = "lookup" /\ prov.provider = "verifyCBE"
  /\ prov.attempt < maxAttempts
  /\ prov' =
       IF resp \in {"timeout", "5xx", "short_document", "not_found",
                    "no_amount"}
       THEN IF prov.attempt + 1 < maxAttempts
            THEN Retry(resp, CbeDelay)
            ELSE Throw(resp)
       ELSE Valid(resp, ParsedAmount(resp))
  /\ UNCHANGED <<cbe, events, detect, qr, invoices, regs, refs, now, calls>>

\* ---- verifyCBE and its temporary files -----------------------------------

\* What the download of the receipt meets.
Downloads == {"ok", "timeout"}

\* Lines 59-67: a call starts.
CbeStart(c) ==
  /\ cbe.run[c].pc = "idle"
  /\ cbe' = [cbe EXCEPT !.run[c].pc = "download"]
  /\ UNCHANGED <<events, prov, detect, qr, invoices, regs, refs, now, calls>>

\* Lines 104-112, the catch of a pass: the attempt is counted; while attempts
\* remain the call waits 3 s, with the files as they are, and when none
\* remains it throws, and the finally of 113-121 removes both files.
CbeCatch(c) ==
  IF cbe.run[c].attempt + 1 < maxAttempts
  THEN [cbe EXCEPT !.run[c].attempt = @ + 1, !.run[c].pc = "delay"]
  ELSE [cbe EXCEPT !.run[c].attempt = @ + 1, !.run[c].pc = "failed",
                   !.run[c].result = "error",
                   !.pdf = "none", !.txt = "none"]

\* Line 71: curl writes the receipt to /tmp/cbe_<id>.pdf, or fails.
CbeDownload(c, resp) ==
  /\ cbe.run[c].pc = "download"
  /\ LET seen == [cbe EXCEPT !.run[c].responses = Append(@, resp)]
     IN cbe' = IF resp = "ok"
               THEN [seen EXCEPT !.pdf = "receipt", !.run[c].wrote = TRUE,
                                 !.run[c].pc = "downloaded"]
               ELSE [CbeCatch(c) EXCEPT
                       !.run[c].responses = seen.run[c].responses]
  /\ UNCHANGED <<events, prov, detect, qr, invoices, regs, refs, now, calls>>

\* Lines 73-78: the file must exist; pdftotext writes /tmp/cbe_<id>.txt
\* from it.
CbeConvert(c) ==
  /\ cbe.run[c].pc = "downloaded"
  /\ cbe' = IF cbe.pdf = "none" THEN CbeCatch(c)
            ELSE [cbe EXCEPT !.txt = cbe.pdf, !.run[c].pc = "converted"]
  /\ UNCHANGED <<events, prov, detect, qr, invoices, regs, refs, now, calls>>

\* The return of a receipt leaving the files where they are.
CbeParseLeavingFiles(c) ==
  /\ cbe.run[c].pc = "converted"
  /\ cbe' = IF cbe.txt = "none" THEN CbeCatch(c)
            ELSE [cbe EXCEPT !.run[c].pc = "returned",
                             !.run[c].result = "valid"]
  /\ UNCHANGED <<events, prov, detect, qr, invoices, regs, refs, now, calls>>

\* Lines 80-103 and 113-121: the text must exist; it is read and parsed, the
\* receipt is returned, and the finally removes both files.
CbeParse(c) ==
  /\ cbe.run[c].pc = "converted"
  /\ cbe' = IF cbe.txt = "none" THEN CbeCatch(c)
            ELSE [cbe EXCEPT !.run[c].pc = "returned",
                             !.run[c].result = "valid",
                             !.pdf = "none", !.txt = "none"]
  /\ UNCHANGED <<events, prov, detect, qr, invoices, regs, refs, now, calls>>

\* Lines 109 and 113-121: the wait is over, the finally of the failed pass
\* removes whatever is at the two paths, and the loop goes on.
CbeRetry(c) ==
  /\ cbe.run[c].pc = "delay"
  /\ cbe' = [cbe EXCEPT !.pdf = "none", !.txt = "none",
                        !.run[c].pc = "download"]
  /\ UNCHANGED <<events, prov, detect, qr, invoices, regs, refs, now, calls>>

\* Two calls of verifyCBE for one transaction id.
NextCbe ==
  \/ \E c \in CbeCalls : CbeStart(c)
  \/ \E c \in CbeCalls, resp \in Downloads : CbeDownload(c, resp)
  \/ \E c \in CbeCalls : CbeConvert(c)
  \/ \E c \in CbeCalls : CbeParse(c)
  \/ \E c \in CbeCalls : CbeRetry(c)

SpecCbe == Init /\ [][NextCbe]_vars

\* The providers, each called with every sequence of responses.
NextProvider ==
  \/ \E provider \in {"verifyTransaction", "verifyBOA", "verifyCBE"} :
       StartProvider(provider)
  \/ \E resp \in Responses : verifyTransaction(resp)
  \/ \E resp \in Responses : verifyBOA(resp)
  \/ \E resp \in Responses : verifyCBE(resp)

SpecProvider == Init /\ [][NextProvider]_vars

\* The commit and what follows it: user A pays with both transaction ids;
\* the receipts confirm 500 and carry a date that parses or one that does
\* not; the registration step may throw.
NextCommit ==
  \/ \E p \in Calls, tx \in TxIds : VpDispatch(p, tx, "A", "telebirr", "none")
  \/ \E p \in Calls : VpVerify(p, {500}, {-1, 0})
  \/ \E p \in Calls : VpResend(p, {"no_chat"})
  \/ \E p \in Calls : VpFind(p)
  \/ \E p \in Calls : VpSave(p)
  \/ \E p \in Calls : VpFinish(p, {"no_chat", "confirm_failed"})
  \/ \E p \in Calls : Respond(p)

SpecCommit == Init /\ [][NextCommit]_vars

\* The event of a commit: the invoices carry a reference to their event or,
\* created without one, only its name; a second event may have been created
\* under the name of the first.  The receipts confirm 300 or 500.
SharedName == [e \in Events |-> "E1"]

\* The invoices with the names the events have.  bulkInitializePayment
\* creates no second invoice of a user under a name, so that under a shared
\* name the later invoice of user A is one created from the name alone.
InvoicesNamed(invs, names) ==
  [i \in InvIds |->
     [invs[i] EXCEPT !.eventName = names[@],
                     !.event = IF names = SharedName /\ i = 2
                               THEN "none" ELSE @]]

InitEvents ==
  /\ \E names \in {OwnNames, SharedName}, legacy \in BOOLEAN :
       /\ names = SharedName => ~legacy
       /\ events = names
       /\ invoices = InvoicesNamed(InitialInvoices(legacy, TRUE), names)
  /\ regs = [k \in {<<"A", "E1">>, <<"A", "E2">>, <<"B", "E1">>} |->
               NewRegistration]
  /\ refs = {}
  /\ now = 0
  /\ calls = [p \in Calls |-> IdleCall]
  /\ detect = NoDetect
  /\ qr = NoQr
  /\ prov = NoProv
  /\ cbe = NoCbe

NextEvents ==
  \/ \E p \in Calls, tx \in TxIds : VpDispatch(p, tx, "A", "telebirr", "none")
  \/ \E p \in Calls : VpVerify(p, {300, 500}, {0})
  \/ \E p \in Calls : VpResend(p, {"no_chat"})
  \/ \E p \in Calls : VpFind(p)
  \/ \E p \in Calls : VpSave(p)
  \/ \E p \in Calls : VpFinish(p, {"no_chat"})
  \/ \E p \in Calls : Respond(p)

SpecEvents == InitEvents /\ [][NextEvents]_vars

\* ---- reconciliation: the claims --------------------------------------------

Paid(i) == invoices[i].status = "paid"

\* C1: in every reachable state at most one paid invoice holds a given
\* transaction id.
UniquePaidTransactionId ==
  \A i, j \in InvIds :
    (Paid(i) /\ Paid(j) /\ invoices[i].transactionId = invoices[j].transactionId)
      => i = j

\* C1 witness: a save was turned away by the unique index while another
\* invoice is paid with that transaction id.
UniquePaidTransactionIdWitness ==
  \E p \in Calls :
    /\ calls[p].pc = "done"
    /\ calls[p].message = "E11000_duplicate_key"
    /\ \E i \in InvIds : Paid(i) /\ invoices[i].transactionId = calls[p].tx

\* The call p takes a step.
Steps(p) == calls'[p] # calls[p]

\* C2: a verifyPayment call whose lookup found the transaction id paid under
\* another user is rejected and changes no invoice and no registration.
OtherUserRejectedWithoutChange ==
  [][\A p \in Calls :
       (/\ calls[p].kind = "vp"
        /\ calls[p].existing # NoInv
        /\ calls[p].pc \in {"vp_find", "vp_save"}
        /\ Steps(p))
       => /\ invoices' = invoices
          /\ regs' = regs
          /\ calls'[p].pc # "vp_finish"
          /\ calls'[p].pc = "done" => ~calls'[p].success]_vars

\* C3: a submission of (T, U) whose receipt arrives after a verifyPayment(T, U)
\* has returned a fresh success takes the duplicate path with the invoice the
\* first call paid, changes no invoice and returns that invoice.
SecondSubmissionReturnsFirstInvoice ==
  [][\A q \in Calls :
       /\ (/\ calls[q].pc = "vp_provider"
           /\ Steps(q)
           /\ calls'[q].message # "provider_error")
          => \A p \in Calls :
               (/\ calls[p].pc = "done"
                /\ calls[p].message = "payment_verified"
                /\ calls[p].tx = calls'[q].tx
                /\ calls[p].user = calls'[q].user)
               => /\ calls'[q].pc = "vp_resend"
                  /\ calls'[q].existing = calls[p].invoice
       /\ (calls[q].pc = "vp_resend" /\ Steps(q))
          => /\ invoices' = invoices
             /\ calls'[q].invoice = calls[q].existing]_vars

\* The invoice that holds the transaction id tx, other than i.
Holder(i, tx) ==
  CHOOSE j \in InvIds : j # i /\ invoices[j].transactionId = tx

\* C4: a save that hits the uniqueness violation returns the outcome of the
\* idempotency step: the existing paid invoice for the same user, the conflict
\* rejection for another user, and not the error of the index.
UniquenessViolationBecomesDuplicateOutcome ==
  [][\A p \in Calls :
       (/\ calls[p].pc = "vp_save"
        /\ calls[p].rdate >= 0
        /\ DuplicateKey(calls[p].pending, calls[p].tx)
        /\ Steps(p))
       => LET h == Holder(calls[p].pending, calls[p].tx)
          IN /\ calls'[p].message # "E11000_duplicate_key"
             /\ invoices[h].user = calls[p].user => calls'[p].invoice = h
             /\ invoices[h].user # calls[p].user => ~calls'[p].success]_vars

\* C5: the transactionId, paidAt and receiptData of a paid invoice never
\* change, and no two calls of one user with different transaction ids report
\* a fresh payment of the same invoice.
TransactionIdSetOnce ==
  [][/\ \A i \in InvIds :
          Paid(i) => /\ invoices'[i].transactionId = invoices[i].transactionId
                     /\ invoices'[i].paidAt = invoices[i].paidAt
                     /\ invoices'[i].confirmedAmount =
                          invoices[i].confirmedAmount
     /\ \A p, q \in Calls :
          (/\ calls'[p].message = "payment_verified"
           /\ calls'[q].message = "payment_verified"
           /\ calls'[p].user = calls'[q].user
           /\ calls'[p].tx # calls'[q].tx)
          => calls'[p].invoice # calls'[q].invoice]_vars

\* C6: a commit takes a pending invoice to paid and stores the transaction id
\* that the provider's receipt carries.
CommitStoresReceiptTransactionId ==
  [][\A p \in Calls :
       (calls[p].pc = "vp_save" /\ calls'[p].pc = "vp_finish")
       => /\ invoices[calls[p].pending].status = "pending"
          /\ invoices'[calls[p].pending].status = "paid"
          /\ invoices'[calls[p].pending].amount <= calls[p].ramount
          /\ invoices'[calls[p].pending].transactionId = calls[p].rtx]_vars

\* ---- ticket lifecycle: the claims ------------------------------------------

\* C7: of the check-ins of one ticket, however they interleave, exactly one
\* succeeds and every other one is turned away.
OneCheckInSucceeds ==
  \A p, q \in Calls :
    (/\ p # q
     /\ calls[p].pc = "done" /\ calls[p].kind = "mtu"
     /\ calls[q].pc = "done" /\ calls[q].kind = "mtu"
     /\ calls[p].ref = calls[q].ref)
    => ~(calls[p].success /\ calls[q].success)

\* C8: a markTicketUsed call that derived the status 'used' fails with
\* already-used, one that derived 'expired' fails with expired, neither
\* changes a registration, and a call that changes one derived 'valid'.
CheckInOnlyWhenValid ==
  [][\A p \in Calls :
       (calls'[p].kind = "mtu" /\ Steps(p))
       => /\ calls'[p].tstatus = "used"
               => /\ regs' = regs
                  /\ calls'[p].pc = "done"
                  /\ ~calls'[p].success
                  /\ calls'[p].message = "Ticket has already been used"
          /\ calls'[p].tstatus = "expired"
               => /\ regs' = regs
                  /\ calls'[p].pc = "done"
                  /\ ~calls'[p].success
                  /\ calls'[p].message = "This ticket has expired"
          /\ regs' # regs => calls'[p].tstatus = "valid"]_vars

\* C8 witness: after a successful check-in, a second scan of the same ticket
\* derived 'used' and was turned away as already used.
CheckInOnlyWhenValidWitness ==
  \E p, q \in Calls :
    /\ calls[p].pc = "done" /\ calls[p].kind = "mtu" /\ calls[p].success
    /\ calls[q].pc = "done" /\ calls[q].kind = "mtu"
    /\ calls[q].ref = calls[p].ref
    /\ calls[q].tstatus = "used"
    /\ calls[q].message = "Ticket has already been used"

\* C9: the reference that a fresh verifyPayment issues verifies as 'valid'
\* right after it is issued, and a reference verifies as 'used' right after
\* markTicketUsed has returned success for it.
ValidWhenIssuedUsedWhenCheckedIn ==
  [][\A p \in Calls :
       /\ (calls[p].pc = "vp_finish" /\ Steps(p))
            => \A r \in refs' :
                 r = Reference(calls[p].pending, calls[p].tx)
                 => verifyTicketReference(r)'.status = "valid"
       /\ (calls[p].pc = "mtu_save" /\ Steps(p))
            => verifyTicketReference(calls[p].ref)'.status = "used"]_vars

\* The status that the claim gives the ticket of invoice i: the registration
\* of the invoice's user for the invoice's event, and the event time.
ClaimedStatus(i) ==
  IF \E k \in DOMAIN regs :
       /\ k[1] = invoices[i].user
       /\ k[2] = invoices[i].eventName
       /\ regs[k].checkedIn
  THEN "used"
  ELSE IF invoices[i].time >= 0 /\ invoices[i].time < now THEN "expired"
  ELSE "valid"

\* C10: every status that verifyTicket or markTicketUsed derives is the one
\* that the state at that moment gives: used when the registration is checked
\* in, else expired when the event time is past, else valid.
StatusIsFunctionOfState ==
  [][\A p \in Calls :
       (/\ calls[p].pc = "idle"
        /\ calls'[p].kind \in {"vt", "mtu"}
        /\ calls'[p].tstatus # "none")
       => calls'[p].tstatus = ClaimedStatus(calls'[p].ref[1])]_vars

\* C10 witness: a ticket checked in and presented after its event time was
\* reported used.
StatusIsFunctionOfStateWitness ==
  \E p \in Calls :
    /\ calls[p].pc = "done" /\ calls[p].kind = "vt"
    /\ calls[p].tstatus = "used"
    /\ invoices[calls[p].ref[1]].time >= 0
    /\ invoices[calls[p].ref[1]].time < now

\* C11: a ticket whose derived status is 'used' or 'expired' reports that
\* same status after every step of verifyTicket, markTicketUsed,
\* checkInManual and verifyPayment.
UsedAndExpiredAreTerminal ==
  [][\A r \in refs :
       verifyTicketReference(r).status \in {"used", "expired"}
         => verifyTicketReference(r)'.status =
              verifyTicketReference(r).status]_vars

\* C12: a registration that is checked in stays checked in over every step.
CheckedInIsMonotonic ==
  [][\A k \in DOMAIN regs :
       regs[k].checkedIn => (k \in DOMAIN regs' /\ regs'[k].checkedIn)]_vars

\* C12 witness: a registration was checked in, its payment was confirmed, and
\* time has passed since the check-in.
CheckedInIsMonotonicWitness ==
  \E k \in DOMAIN regs :
    /\ regs[k].checkedIn
    /\ regs[k].status = "confirmed"
    /\ regs[k].checkedInAt < now

\* ---- routing: the claims ------------------------------------------------------

\* The provider of a rail.
RailProvider(rail) ==
  CASE rail = "cbe" -> "verifyCBE"
    [] rail = "boa" -> "verifyBOA"
    [] OTHER -> "verifyTransaction"

\* C16: a verifyPayment call without a method invokes the provider of the
\* rail that the prefix of its transaction id names.
AbsentMethodInfersRail ==
  [][\A p \in Calls :
       (/\ calls[p].pc = "idle"
        /\ calls'[p].pc = "vp_provider"
        /\ calls'[p].method = "none")
       => calls'[p].invoked =
            {RailProvider(detectPaymentMethod(Characters(calls'[p].tx)))}]_vars

\* The method that the claim gives a transaction id: by the first letters of
\* the id without its surrounding blanks, in either case.
ClaimedMethod(str) ==
  LET t == str
      first == CHOOSE n \in 1..(Len(t) + 1) :
                 /\ n = Len(t) + 1 \/ t[n] # " "
                 /\ \A k \in 1..(n - 1) : t[k] = " "
      At(n) == IF first + n - 1 <= Len(t) THEN t[first + n - 1] ELSE " "
  IN IF At(1) \in {"F", "f"} /\ At(2) = "T" THEN "cbe"
     ELSE IF At(1) \in {"C", "D"} /\ At(2) \in {"F", "f"} /\ At(3) = "T"
     THEN "boa"
     ELSE "telebirr"

\* C17: the method detected for a transaction id is 'cbe' when the trimmed
\* id starts with FT in either case, 'boa' when it starts with CFT or DFT,
\* 'telebirr' otherwise, and detecting again gives the same method.
DetectionFollowsPrefix ==
  /\ detect.method # "none" => detect.method = ClaimedMethod(detect.tid)
  /\ detectPaymentMethod(detect.tid) = ClaimedMethod(detect.tid)

\* C17 witness: an id written " fT " was routed to CBE.
DetectionFollowsPrefixWitness ==
  /\ detect.tid = <<" ", "f", "T", " ">>
  /\ detect.method = "cbe"

\* C18: a call invokes exactly one provider, the one its method names, and a
\* call whose provider fails returns a failure and invokes no provider again.
OneProviderPerCall ==
  [][\A p \in Calls :
       /\ (calls[p].pc = "idle" /\ calls'[p].pc = "vp_provider")
            => /\ Cardinality(calls'[p].invoked) = 1
               /\ ToLowerCase(calls'[p].method) \in Methods
                    => calls'[p].invoked =
                         {RailProvider(ToLowerCase(calls'[p].method))}
       /\ (calls[p].pc = "vp_provider" /\ Steps(p))
            => /\ calls'[p].pc # "vp_provider"
               /\ calls'[p].invoked = {}
               /\ calls'[p].message = "provider_error"
                    => /\ calls'[p].pc = "done"
                       /\ ~calls'[p].success
                       /\ invoices' = invoices]_vars

\* C18 witness: a call failed with its provider's error while another call,
\* whose method is written in capitals, awaits the CBE provider alone.
OneProviderPerCallWitness ==
  \E p, q \in Calls :
    /\ calls[p].pc = "done" /\ calls[p].message = "provider_error"
    /\ calls[q].pc = "vp_provider" /\ calls[q].method = "CBE"
    /\ calls[q].invoked = {"verifyCBE"}

\* ---- candidate selection: the claims ----------------------------------------

\* The user's pending invoices that a receipt of amount a covers, for the
\* event named, or for any event.
Candidates(u, hint, a) ==
  {i \in InvIds : /\ invoices[i].status = "pending"
                  /\ invoices[i].user = u
                  /\ invoices[i].amount <= a
                  /\ hint = "none" \/ invoices[i].eventName = hint}

\* The most recently created invoice of a set.
Newest(S) == CHOOSE i \in S : \A j \in S : j <= i

\* C19: the selection takes the newest candidate for the hinted event when a
\* hint is given and there is one, else the newest candidate of the user, and
\* none when the user has no candidate.
SelectsNewestCandidate ==
  [][\A p \in Calls :
       (calls[p].pc = "vp_find" /\ Steps(p))
       => LET u == calls[p].user
              a == calls[p].ramount
              h == calls[p].hint
              chosen == IF calls'[p].pc = "vp_save" THEN calls'[p].pending
                        ELSE NoInv
          IN IF h # "none" /\ Candidates(u, h, a) # {}
             THEN chosen = Newest(Candidates(u, h, a))
             ELSE IF Candidates(u, "none", a) # {}
             THEN chosen = Newest(Candidates(u, "none", a))
             ELSE chosen = NoInv]_vars

\* C19 witness: with the hint E2 the call selected invoice 2 while the newer
\* invoice 3, which the receipt also covers, is pending.
SelectsNewestCandidateWitness ==
  \E p \in Calls :
    /\ calls[p].pc = "vp_save"
    /\ calls[p].hint = "E2"
    /\ calls[p].pending = 2
    /\ invoices[3].status = "pending"
    /\ invoices[3].amount <= calls[p].ramount

\* C20: every paid invoice has an amount that does not exceed the confirmed
\* amount of the receipt stored with it.
PaidAmountCovered ==
  \A i \in InvIds : Paid(i) => invoices[i].amount <= invoices[i].confirmedAmount

\* C20 witness: a call reported the payment of an invoice of 300 by a receipt
\* of 500, and the invoice of 500 is paid too.
PaidAmountCoveredWitness ==
  /\ \E p \in Calls :
       /\ calls[p].pc = "done" /\ calls[p].message = "payment_verified"
       /\ invoices[calls[p].invoice].amount = 300
       /\ invoices[calls[p].invoice].confirmedAmount = 500
  /\ Paid(3)

\* ---- the signed reference: the claims -----------------------------------------

\* C13: the reference issued for a paid invoice, presented as issued, passes
\* the signature check and gives back the invoice id of the invoice.
RoundTrip ==
  (qr.pc = "verified" /\ qr.presented = qr.reference)
    => /\ qr.error = "none"
       /\ qr.decodedInvoiceId = qr.invoiceId

\* C14: an issued reference with one character changed fails with the
\* invalid-signature error, whose code is neither the generic one nor
\* not-found.
SingleFlipIsIntegrityError ==
  (qr.pc = "verified" /\ qr.presented # qr.reference)
    => /\ qr.error = "Invalid signature - possible fraud"
       /\ ErrorCode(qr.error) = "INVALID_SIGNATURE"

\* C15: a reference whose signature matches and for which no invoice with
\* its invoice id, its transaction id and status paid exists is not found:
\* verifyTicketReference fails with that error and no status, and
\* GET /ticket/:reference answers with the not-found code.
UnpaidReferenceIsNotFound ==
  [][\A p \in Calls :
       (/\ calls[p].pc = "idle"
        /\ calls'[p].kind = "vt"
        /\ ~\E i \in InvIds : /\ i = calls'[p].ref[1]
                               /\ invoices[i].transactionId = calls'[p].ref[2]
                               /\ invoices[i].status = "paid")
       => /\ verifyTicketReference(calls'[p].ref).error =
               "Invoice not found or not paid"
          /\ calls'[p].tstatus = "none"
          /\ ~calls'[p].success
          /\ calls'[p].message = "TICKET_NOT_FOUND"]_vars

\* C15 witness: a ticket that was sent was looked up and not found, its
\* invoice being paid under another transaction id.
UnpaidReferenceIsNotFoundWitness ==
  \E p \in Calls :
    /\ calls[p].pc = "done" /\ calls[p].kind = "vt"
    /\ calls[p].ref \in refs
    /\ calls[p].message = "TICKET_NOT_FOUND"
    /\ Paid(calls[p].ref[1])
    /\ invoices[calls[p].ref[1]].transactionId # calls[p].ref[2]

\* ---- failures and side effects: the claims -----------------------------------

\* C21: a call whose user has no pending invoice that the receipt covers
\* fails with the no-pending-invoice outcome that carries the amount of the
\* receipt, and changes no invoice and no registration.
NoCandidateFailsWithAmount ==
  [][\A p \in Calls :
       (/\ calls[p].pc = "vp_find"
        /\ Steps(p)
        /\ Candidates(calls[p].user, "none", calls[p].ramount) = {})
       => /\ calls'[p].pc = "done"
          /\ ~calls'[p].success
          /\ calls'[p].message = "no_pending_invoice"
          /\ calls'[p].searched = calls[p].ramount
          /\ calls'[p].invoice = NoInv
          /\ invoices' = invoices
          /\ regs' = regs]_vars

\* C21 witness: two calls failed for want of an invoice, one searching for
\* 100 and one for 200, and every invoice is pending.
NoCandidateFailsWithAmountWitness ==
  /\ \E p, q \in Calls :
       /\ calls[p].message = "no_pending_invoice" /\ calls[p].searched = 100
       /\ calls[q].message = "no_pending_invoice" /\ calls[q].searched = 200
  /\ \A i \in InvIds : invoices[i].status = "pending"

\* C23: a submission that takes the duplicate path returns success with the
\* existing invoice, whether the ticket could be sent again or not.
DuplicateIsSuccess ==
  [][\A p \in Calls :
       (calls[p].pc = "vp_resend" /\ Steps(p))
       => /\ calls'[p].success
          /\ calls'[p].invoice = calls[p].existing
          /\ invoices' = invoices]_vars

\* C22: a commit whose receipt carries a date that does not parse succeeds,
\* and the invoice is paid with paidAt the current time.
UnparsableDateFallsBackToNow ==
  [][\A p \in Calls :
       (/\ calls[p].pc = "vp_save"
        /\ Steps(p)
        /\ calls[p].rdate < 0
        /\ ~DuplicateKey(calls[p].pending, calls[p].tx))
       => /\ calls'[p].pc = "vp_finish"
          /\ invoices'[calls[p].pending].status = "paid"
          /\ invoices'[calls[p].pending].paidAt = now]_vars

\* C24: when the registration step fails after the commit, the invoice is
\* left as committed, and no paid invoice ever ceases to be paid.
CommitIsNotRolledBack ==
  [][/\ \A p \in Calls :
          (/\ calls[p].pc = "vp_finish"
           /\ Steps(p)
           /\ calls'[p].message = "confirm_error")
          => /\ invoices' = invoices
             /\ invoices'[calls[p].pending].status = "paid"
     /\ \A i \in InvIds : Paid(i) => invoices'[i].status = "paid"]_vars

\* C24 witness: a call returned the error of the registration step, and the
\* invoice it committed is paid with its transaction id while the
\* registration of the user is not confirmed.
CommitIsNotRolledBackWitness ==
  \E p \in Calls, i \in InvIds :
    /\ calls[p].pc = "done" /\ calls[p].message = "confirm_error"
    /\ Paid(i)
    /\ invoices[i].user = calls[p].user
    /\ invoices[i].transactionId = calls[p].tx
    /\ invoices[i].paidAt = 0
    /\ \A k \in DOMAIN regs : regs[k].status = "registered"

\* C25: every call that has committed a payment returns success for it,
\* whatever fails in the steps after the commit.
SideEffectsNeverFailPayment ==
  [][\A p \in Calls :
       (calls[p].pc = "vp_finish" /\ Steps(p))
       => /\ calls'[p].success
          /\ calls'[p].invoice = calls[p].pending]_vars

\* The events that invoice i names: the one it refers to, or for an invoice
\* without a reference those of the name it carries.
NamedEvents(i) ==
  IF invoices[i].event # "none" THEN {invoices[i].event}
  ELSE {e \in Events : events[e] = invoices[i].eventName}

\* C26: after a call has returned success for a fresh commit, a registration
\* of the user for an event that the invoice names is confirmed, when the
\* user has one.
CommitConfirmsRegistration ==
  [][\A p \in Calls :
       (/\ calls[p].pc = "vp_finish"
        /\ Steps(p)
        /\ calls'[p].success)
       => LET i == calls[p].pending
              ks == {k \in DOMAIN regs :
                       k[1] = invoices[i].user /\ k[2] \in NamedEvents(i)}
          IN ks # {} => \E k \in ks : regs'[k].status = "confirmed"]_vars

\* C27: a call writes no invoice and no registration while it starts and
\* while it awaits its provider, whether the provider then fails or answers;
\* every step that writes one is a step of a call that holds the valid
\* receipt of its provider.
VerificationFirst ==
  [][/\ \A p \in Calls :
          (calls[p].pc \in {"idle", "vp_provider"} /\ Steps(p))
          => invoices' = invoices /\ regs' = regs
     /\ (invoices' # invoices \/ regs' # regs)
          => \E p \in Calls : /\ Steps(p)
                               /\ calls[p].pc \in {"vp_save", "vp_finish"}
                               /\ calls[p].ramount > 0
                               /\ calls[p].rtx # "none"]_vars

\* C27 witness: a call whose provider failed has returned, another call of
\* the same user awaits its provider, and every invoice is pending without a
\* transaction id and every registration as it was created.
VerificationFirstWitness ==
  /\ \E p, q \in Calls :
       /\ calls[p].pc = "done" /\ calls[p].message = "provider_error"
       /\ calls[q].pc = "vp_provider" /\ calls[q].user = calls[p].user
  /\ \A i \in InvIds : /\ invoices[i].status = "pending"
                        /\ invoices[i].transactionId = "none"
  /\ \A k \in DOMAIN regs : regs[k] = NewRegistration

\* ---- the receipt providers: the claims -----------------------------------

\* The failures that may pass, and those that will not.
Transient == {"timeout", "5xx", "short_document"}
Terminal == {"not_found", "no_amount", "nan_amount"}

\* C28: a provider that has terminated with an error after transient
\* failures only has looked up two or three times and has waited 2 or 3
\* seconds between every two lookups.
TransientRetriedThenError ==
  (/\ prov.pc = "failed"
   /\ \A k \in 1..Len(prov.responses) : prov.responses[k] \in Transient)
  => /\ prov.attempt \in 2..3
     /\ Len(prov.delays) = prov.attempt - 1
     /\ \A k \in 1..Len(prov.delays) : prov.delays[k] \in 2..3

\* C29: a lookup that met a terminal failure is the last of its call, the
\* call has failed, and its error is that of no transient failure.
TerminalNeverRetried ==
  \A k \in 1..Len(prov.responses) :
    prov.responses[k] \in Terminal
    => /\ k = Len(prov.responses)
       /\ prov.pc = "failed"
       /\ \A t \in Transient : ErrorOf(prov.provider, t) # prov.error

\* C30: a receipt returned as 'valid' has an amount above zero.
ValidAmountIsPositive ==
  prov.status = "valid" => prov.amount # NaN /\ prov.amount > 0

\* ---- verifyCBE and its temporary files: the claims ------------------------

\* C31: when a call of verifyCBE returns its receipt or throws its last
\* error, neither the PDF nor the text is left in /tmp.
CbeFilesRemovedOnExit ==
  [][\A c \in CbeCalls :
       (/\ cbe.run[c].pc \notin {"returned", "failed"}
        /\ cbe'.run[c].pc \in {"returned", "failed"})
       => cbe'.pdf = "none" /\ cbe'.txt = "none"]_vars

\* C31 witness: one call has returned a receipt after a failed first pass
\* and the other has thrown after its last pass, both had written the PDF,
\* and no file is left.
CbeFilesRemovedOnExitWitness ==
  /\ cbe.run[1].pc = "returned" /\ cbe.run[1].attempt = 1
  /\ cbe.run[2].pc = "failed" /\ cbe.run[2].attempt = maxAttempts
  /\ cbe.run[1].wrote /\ cbe.run[2].wrote
  /\ cbe.pdf = "none" /\ cbe.txt = "none"

\* What a call of verifyCBE returns when it runs alone and its downloads meet
\* these responses: the receipt of the first download that succeeds.
AloneResult(responses) ==
  IF \E k \in 1..Len(responses) : responses[k] = "ok" THEN "valid"
  ELSE "error"

\* C36: a call of verifyCBE that has ended beside another call for the same
\* transaction id has the result that it has alone.
CbeCallsDoNotInterfere ==
  \A c \in CbeCalls :
    cbe.run[c].pc \in {"returned", "failed"}
    => cbe.run[c].result = AloneResult(cbe.run[c].responses)

\* ---- registrations and tickets: further claims ----------------------------

\* C32: in every reachable state a confirmed registration has a paid invoice
\* of the same user for the same event.
ConfirmedOnlyByPayment ==
  \A k \in DOMAIN regs :
    regs[k].status = "confirmed"
    => \E i \in InvIds : /\ Paid(i)
                         /\ invoices[i].user = k[1]
                         /\ k[2] \in NamedEvents(i)

\* C33: the payment of the one pending invoice of 500 by a receipt of 500
\* leaves the invoice paid and the registration confirmed and issues a
\* reference that verifies as 'valid'; a lookup reports 'valid' before the
\* check-in and 'used' after it; the check-in leaves the ticket 'used'; and
\* a check-in of the used ticket is turned away as already used and changes
\* nothing.
EndToEndTrace ==
  [][\A p \in Calls :
       /\ (calls[p].pc = "vp_finish" /\ Steps(p))
            => \E i \in InvIds, r \in refs' :
                 /\ i = calls[p].pending
                 /\ r = Reference(i, calls[p].tx)
                 /\ calls'[p].success
                 /\ invoices'[i].status = "paid"
                 /\ invoices'[i].amount = 500
                 /\ regs'[<<invoices[i].user, invoices[i].event>>].status
                      = "confirmed"
                 /\ verifyTicketReference(r)'.status = "valid"
       /\ (calls[p].pc = "idle" /\ Steps(p) /\ calls'[p].kind = "vt")
            => calls'[p].tstatus =
                 IF regs[<<"B", "E1">>].checkedIn THEN "used" ELSE "valid"
       /\ (calls[p].pc = "mtu_save" /\ Steps(p))
            => /\ calls'[p].success
               /\ verifyTicketReference(calls[p].ref)'.status = "used"
       /\ (/\ calls[p].pc = "idle" /\ Steps(p) /\ calls'[p].kind = "mtu"
           /\ regs[<<"B", "E1">>].checkedIn)
            => /\ calls'[p].pc = "done"
               /\ ~calls'[p].success
               /\ calls'[p].message = "Ticket has already been used"
               /\ regs' = regs]_vars

\* C33 witness: the invoice of 500 is paid, the registration is confirmed
\* and checked in, a lookup has reported 'used' and a check-in has been
\* turned away as already used.
EndToEndTraceWitness ==
  /\ Paid(3) /\ invoices[3].amount = 500 /\ invoices[3].confirmedAmount = 500
  /\ regs[<<"B", "E1">>].status = "confirmed"
  /\ regs[<<"B", "E1">>].checkedIn
  /\ Reference(3, invoices[3].transactionId) \in refs
  /\ \E p, q \in Calls :
       /\ calls[p].pc = "done" /\ calls[p].kind = "vt"
       /\ calls[p].tstatus = "used"
       /\ calls[q].pc = "done" /\ calls[q].kind = "mtu"
       /\ calls[q].message = "Ticket has already been used"

\* C34: a markTicketUsed that succeeds for the ticket of an invoice changes
\* no registration other than the one of the invoice's user for the
\* invoice's event.
CheckInTouchesOnlyTicketEvent ==
  [][\A p \in Calls :
       (calls[p].pc = "mtu_save" /\ Steps(p) /\ calls'[p].success)
       => \A k \in DOMAIN regs :
            k # <<invoices[calls[p].ref[1]].user, TicketEvent(calls[p].ref[1])>>
            => regs'[k] = regs[k]]_vars

\* C35: in every reachable state a registration that is checked in belongs
\* to a user with a paid invoice for the registration's event.
CheckedInHasPaidInvoice ==
  \A k \in DOMAIN regs :
    regs[k].checkedIn
    => \E i \in InvIds : /\ Paid(i)
                         /\ invoices[i].user = k[1]
                         /\ k[2] \in NamedEvents(i)

\* C37: every verifyPayment call ends with a value, and when the value is a
\* success the store holds a paid invoice of the call's user with the
\* call's transaction id.
SuccessOnlyIfPersisted ==
  [][\A p \in Calls :
       (/\ calls[p].kind = "vp"
        /\ calls[p].pc # "done"
        /\ calls'[p].pc = "done"
        /\ calls'[p].success)
       => \E i \in InvIds :
            /\ invoices'[i].status = "paid"
            /\ invoices'[i].transactionId = calls[p].tx
            /\ invoices'[i].user = calls[p].user]_vars

\* C38: in every reachable state all the references that were issued for
\* one invoice verify, and they report one status.
ReferencesOfOneInvoiceAgree ==
  \A r1, r2 \in refs :
    r1[1] = r2[1]
    => /\ verifyTicketReference(r1).error = "none"
       /\ verifyTicketReference(r2).error = "none"
       /\ verifyTicketReference(r1).status = verifyTicketReference(r2).status

\* The transaction id as the routing rule reads it: trimmed and in capitals.
Normalized(tx) == ToUpperCase(Trim(Characters(tx)))

\* C39: in every reachable state no two paid invoices hold transaction ids
\* that differ only in letter case or surrounding whitespace.
NormalizedKeyPaysOnce ==
  \A i, j \in InvIds :
    (i # j /\ Paid(i) /\ Paid(j))
    => Normalized(invoices[i].transactionId)
         # Normalized(invoices[j].transactionId)

====
